---- MODULE Spec2Model ----
(***************************************************************************)
(* Model of NotionTemplateGenerator.generate_template and the two HTTP      *)
(* helpers it calls, create_page and append_blocks                          *)
(* (src/notion_template_generator.py).                                      *)
(*                                                                          *)
(* The job builds an ordered list of blocks, creates one page seeded with   *)
(* the first 100 blocks and appends the rest in chunks of 100.  The remote  *)
(* API is the environment: every call may raise a transport error or        *)
(* answer with any status and body.  A blocking call is split into the      *)
(* step that sends the request and the step that receives its outcome.      *)
(***************************************************************************)
EXTENDS Integers, Sequences, FiniteSets, TLC

\* Largest number of blocks build_complete_template is taken to produce.
MaxLen == 250

\* chunk_size = 100 (generate_template).
chunk_size == 100

\* Python's None, as it also appears once formatted into a URL.
None == "None"

\* Identifiers the remote API may give to the created page.
PageIds == {"page-a", "page-b"}

Min(a, b) == IF a <= b THEN a ELSE b

\* Python slice s[lo:hi] for 0 <= lo, 0 <= hi (bounds clamp to len(s)).
PySlice(s, lo, hi) ==
    LET l == Min(lo, Len(s))
        h == Min(hi, Len(s))
    IN  IF l >= h THEN << >> ELSE SubSeq(s, l + 1, h)

\* A JSON object is a set of <<key, value>> pairs; {} is the empty object.
DictGet(d, k) ==
    IF \E p \in d : p[1] = k THEN (CHOOSE p \in d : p[1] = k)[2] ELSE None

\* The n blocks of the template, each block identified by its position.
build_complete_template(n) == [k \in 1..n |-> k]

\* What requests.post / requests.patch can produce: a raised transport
\* error, or a response with a status code and a body that may or may not
\* parse as JSON.
TransportError ==
    [transport_error |-> TRUE, status_code |-> 0, json_valid |-> FALSE, body |-> {}]

HttpResponse(code, valid, b) ==
    [transport_error |-> FALSE, status_code |-> code, json_valid |-> valid, body |-> b]

ErrorBody == {<<"message", "error">>}

CreateResponses ==
    {TransportError}
    \cup {HttpResponse(200, TRUE, {<<"id", p>>, <<"url", "url">>}) : p \in PageIds}
    \cup {HttpResponse(200, TRUE, {<<"object", "page">>}),
          HttpResponse(200, TRUE, {}),
          HttpResponse(200, FALSE, {}),
          HttpResponse(400, TRUE, ErrorBody),
          HttpResponse(500, FALSE, {})}

AppendResponses ==
    {TransportError,
     HttpResponse(200, TRUE, {<<"object", "list">>}),
     HttpResponse(200, TRUE, {}),
     HttpResponse(200, FALSE, {}),
     HttpResponse(400, TRUE, ErrorBody),
     HttpResponse(500, FALSE, {})}

VARIABLES
    all_children,   \* the list built by build_complete_template
    pc,             \* position of generate_template
    requests,       \* HTTP requests sent so far, in order
    responses,      \* outcomes received so far, in order
    page_id,        \* local page_id of generate_template
    i,              \* loop variable of the append loop
    out,            \* lines printed so far
    retval          \* return value of generate_template

vars == <<all_children, pc, requests, responses, page_id, i, out, retval>>

\* first_chunk = all_children[:100]
first_chunk == PySlice(all_children, 0, 100)

\* remaining_blocks = all_children[100:]
remaining_blocks == PySlice(all_children, 100, Len(all_children))

\* The chunk starts one block late (remaining_blocks[i + 1:i + chunk_size]).
chunkOffByOne == PySlice(remaining_blocks, i + 1, i + chunk_size)

\* chunk = remaining_blocks[i:i + chunk_size]
chunk == PySlice(remaining_blocks, i, i + chunk_size)

\* The loop runs one iteration too many (range(0, len + 1, chunk_size)).
LoopHasNextInclusive == i <= Len(remaining_blocks)

\* for i in range(0, len(remaining_blocks), chunk_size): another iteration?
LoopHasNext == i < Len(remaining_blocks)

\* The payload always carries a children list, empty or not.
create_page_payload_always(title, children) ==
    [parent |-> "parent_page_id", title |-> title,
     children |-> PySlice(children, 0, 100)]

\* The payload create_page posts: children only if the list is non-empty.
create_page_payload(title, children) ==
    IF children # << >>
    THEN [parent |-> "parent_page_id", title |-> title,
          children |-> PySlice(children, 0, 100)]
    ELSE [parent |-> "parent_page_id", title |-> title]

create_page_request(title, children) ==
    [method |-> "POST", url |-> <<"pages">>,
     payload |-> create_page_payload(title, children)]

\* The payload append_blocks patches.
append_blocks_payload(children) == [children |-> PySlice(children, 0, 100)]

append_blocks_request(pid, children) ==
    [method |-> "PATCH", url |-> <<"blocks", pid, "children">>,
     payload |-> append_blocks_payload(children)]

\* requests.post raises, or create_page calls response.json() on a body
\* that does not parse; either way the exception leaves create_page.
CreateRaises(response) ==
    \/ response.transport_error
    \/ response.status_code = 200 /\ ~response.json_valid

\* A patch that answers with a status is treated as an exception too
\* (as if append_blocks called response.raise_for_status()).
AppendRaisesOnStatus(response) ==
    \/ response.transport_error
    \/ response.status_code = 200 /\ ~response.json_valid
    \/ response.status_code # 200

\* requests.patch raises, or append_blocks calls response.json() on a body
\* that does not parse.
AppendRaises(response) ==
    \/ response.transport_error
    \/ response.status_code = 200 /\ ~response.json_valid

\* create_page / append_blocks return None as data unless the status is 200.
ReturnsNone(response) == response.status_code # 200

\* "not response_data or response.status_code != 200"
CreateFailed(response) ==
    \/ ReturnsNone(response)
    \/ response.body = {}
    \/ response.status_code # 200

\* "not append_data or append_response.status_code != 200"
AppendFailed(response) ==
    \/ ReturnsNone(response)
    \/ response.body = {}
    \/ response.status_code # 200

Line(text, lo, hi) == [text |-> text, lo |-> lo, hi |-> hi]

Init ==
    /\ \E n \in 0..MaxLen : all_children = build_complete_template(n)
    /\ pc = "start"
    /\ requests = << >>
    /\ responses = << >>
    /\ page_id = None
    /\ i = 0
    /\ out = << >>
    /\ retval = "none"

\* except Exception: print, return False
HandleException ==
    /\ out' = Append(out, Line("An error occurred", 0, 0))
    /\ retval' = "False"
    /\ pc' = "done"

\* generate_template up to the point where create_page posts its request.
CallCreate ==
    /\ pc = "start"
    /\ out' = Append(out, Line("Total blocks to create", Len(all_children), 0))
    /\ requests' = Append(requests,
                     create_page_request("Sarah's Life Design Dashboard", first_chunk))
    /\ pc' = "create_wait"
    /\ UNCHANGED <<all_children, responses, page_id, i, retval>>

\* The outcome of the post when the failure branch reports the error but
\* does not return, so that the job goes on to the append loop.
CreateReturnsNoAbort(response) ==
    /\ pc = "create_wait"
    /\ responses' = Append(responses, response)
    /\ IF CreateRaises(response)
       THEN /\ HandleException
            /\ UNCHANGED <<page_id, i>>
       ELSE /\ page_id' = DictGet(response.body, "id")
            /\ out' = out \o (IF CreateFailed(response)
                              THEN <<Line("Failed to create template", 0, 0)>>
                              ELSE <<Line("Main page created (blocks 1-100)", 0, 0)>>)
            /\ i' = 0
            /\ pc' = "loop"
            /\ UNCHANGED retval
    /\ UNCHANGED <<all_children, requests>>

\* The post returns or raises; generate_template checks the outcome.
CreateReturns(response) ==
    /\ pc = "create_wait"
    /\ responses' = Append(responses, response)
    /\ IF CreateRaises(response)
       THEN /\ HandleException
            /\ UNCHANGED <<page_id, i>>
       ELSE IF CreateFailed(response)
       THEN /\ out' = out \o <<Line("Failed to create template", 0, 0),
                               Line("Status Code", response.status_code, 0),
                               Line("Error", 0, 0)>>
            /\ retval' = "False"
            /\ pc' = "done"
            /\ UNCHANGED <<page_id, i>>
       ELSE /\ page_id' = DictGet(response.body, "id")
            /\ out' = out \o <<Line("Main page created (blocks 1-100)", 0, 0)>>
                          \o (IF remaining_blocks # << >>
                              THEN <<Line("Appending remaining blocks",
                                          Len(remaining_blocks), 0)>>
                              ELSE << >>)
            /\ i' = 0
            /\ pc' = "loop"
            /\ UNCHANGED retval
    /\ UNCHANGED <<all_children, requests>>

\* The patch request of an iteration sent without waiting for the call
\* before it to complete (a fire-and-forget client).
CallAppendNoWait ==
    /\ pc \in {"create_wait", "loop"}
    /\ LoopHasNext
    /\ requests' = Append(requests, append_blocks_request(page_id, chunk))
    /\ pc' = "append_wait"
    /\ UNCHANGED <<all_children, responses, page_id, i, out, retval>>

\* One iteration of the append loop up to the patch request.
CallAppend ==
    /\ pc = "loop"
    /\ LoopHasNext
    /\ requests' = Append(requests, append_blocks_request(page_id, chunk))
    /\ pc' = "append_wait"
    /\ UNCHANGED <<all_children, responses, page_id, i, out, retval>>

\* The patch returns or raises; the loop reports the chunk and moves on.
AppendReturns(response) ==
    /\ pc = "append_wait"
    /\ responses' = Append(responses, response)
    /\ IF AppendRaises(response)
       THEN /\ HandleException
            /\ UNCHANGED i
       ELSE /\ out' = Append(out,
                        IF AppendFailed(response)
                        THEN Line("Warning: Failed to append blocks",
                                  i + 101, Min(i + 200, Len(all_children)))
                        ELSE Line("Appended blocks",
                                  i + 101, Min(i + chunk_size, Len(all_children))))
            /\ i' = i + chunk_size
            /\ pc' = "loop"
            /\ UNCHANGED retval
    /\ UNCHANGED <<all_children, requests, page_id>>

\* The loop is exhausted (or was never entered): report success.
Finish ==
    /\ pc = "loop"
    /\ ~LoopHasNext
    /\ out' = out \o <<Line("Template created successfully", 0, 0),
                       [text |-> "Page ID", lo |-> 0, hi |-> 0, id |-> page_id]>>
    /\ retval' = "True"
    /\ pc' = "done"
    /\ UNCHANGED <<all_children, requests, responses, page_id, i>>

Next ==
    \/ CallCreate
    \/ \E response \in CreateResponses : CreateReturns(response)
    \/ CallAppend
    \/ \E response \in AppendResponses : AppendReturns(response)
    \/ Finish

Spec == Init /\ [][Next]_vars

(***************************************************************************)
(* Vocabulary of the properties.                                            *)
(***************************************************************************)
N == Len(all_children)

IsPost(r) == r.method = "POST"
IsPatch(r) == r.method = "PATCH"

CreateCalls == SelectSeq(requests, IsPost)
AppendCalls == SelectSeq(requests, IsPatch)

\* The items a request carries (none when the payload has no children key).
SentItems(r) ==
    IF "children" \in DOMAIN r.payload THEN r.payload.children ELSE << >>

RECURSIVE ConcatItems(_)
ConcatItems(rs) ==
    IF Len(rs) = 0 THEN << >> ELSE SentItems(Head(rs)) \o ConcatItems(Tail(rs))

IsPrefix(s, t) == Len(s) <= Len(t) /\ SubSeq(t, 1, Len(s)) = s

\* The create call is the first request; append call k is request k + 1.
CreateAnswered == Len(responses) >= 1
AppendAnswered(k) == Len(responses) >= k + 1
AppendResponse(k) == responses[k + 1]

\* Number of tail slices of a sequence of length n: max(0, ceil((n-100)/100)).
ExpectedAppends(n) == IF n <= 100 THEN 0 ELSE (n - 100 + 99) \div 100

\* Size of the last tail slice.
ExpectedLast(n) == IF (n - 100) % 100 = 0 THEN 100 ELSE (n - 100) % 100

StatusFailure(r) == ~r.transport_error /\ r.status_code # 200

IsRangeLine(l) ==
    l.text \in {"Warning: Failed to append blocks", "Appended blocks"}
RangeLines == SelectSeq(out, IsRangeLine)

IsPageIdLine(l) == l.text = "Page ID"
PageIdLines == SelectSeq(out, IsPageIdLine)

\* C1: the item lists sent in the create call and then in the append calls,
\* concatenated in call order, never deviate from the input sequence (they
\* are always a prefix of it), and when the job has gone through all its
\* slices they are the input sequence exactly.
C1_RoundTrip ==
    /\ IsPrefix(ConcatItems(requests), all_children)
    /\ (retval = "True" => ConcatItems(requests) = all_children)

C1_Witness ==
    /\ retval = "True"
    /\ N = 250
    /\ Len(requests) = 3
    /\ Len(SentItems(requests[3])) = 50

\* C2: when the create call succeeded and every append call returned, the
\* number of append calls is max(0, ceil((N-100)/100)), every append slice
\* has at most 100 items, the last one has (N-100) mod 100 items (100 when
\* that is zero), and N = 100 gives one create call and no append call.
C2_SliceCount ==
    retval = "True" =>
        /\ Len(CreateCalls) = 1
        /\ Len(AppendCalls) = ExpectedAppends(N)
        /\ \A k \in 1..Len(AppendCalls) :
              /\ Len(SentItems(AppendCalls[k])) <= 100
              /\ Len(SentItems(AppendCalls[k])) >= 1
        /\ (N > 100 =>
              Len(SentItems(AppendCalls[Len(AppendCalls)])) = ExpectedLast(N))
        /\ (N = 100 => Len(requests) = 1)

C2_Witness ==
    /\ retval = "True"
    /\ N = 200
    /\ Len(AppendCalls) = 1
    /\ Len(SentItems(AppendCalls[1])) = 100

\* C3: once the create call has answered with a non-success status the job
\* is over with a failure result, no append call has been issued and no
\* container identifier has been produced.
C3_CreateFailureAborts ==
    (CreateAnswered /\ StatusFailure(responses[1])) =>
        /\ pc = "done"
        /\ retval = "False"
        /\ Len(AppendCalls) = 0
        /\ page_id = None
        /\ Len(PageIdLines) = 0

C3_Witness ==
    /\ CreateAnswered
    /\ responses[1].status_code = 400
    /\ N = 250
    /\ pc = "done"

\* The remote API answers as documented: a call either raises a transport
\* error, or answers a non-success status, or answers 200 with a JSON object
\* (carrying the page id when it answers the create call).
AsDocumented(r, isCreate) ==
    \/ r.transport_error
    \/ r.status_code # 200
    \/ /\ r.json_valid
       /\ r.body # {}
       /\ (isCreate => DictGet(r.body, "id") \in PageIds)

RemoteAsDocumented ==
    \A k \in 1..Len(responses) : AsDocumented(responses[k], k = 1)

\* Append call k returned and the job took the failure branch for it.
AppendFailedAt(k) ==
    /\ AppendAnswered(k)
    /\ ~AppendRaises(AppendResponse(k))
    /\ AppendFailed(AppendResponse(k))

\* C4: if any append call failed, the finished job does not return True and
\* still reports the container identifier obtained from the create call;
\* the job returns True only if the create call and every append slice
\* succeeded.  Stated for the runs in which the remote API answers as
\* documented.
C4_SuccessFlag ==
    (pc = "done" /\ RemoteAsDocumented) =>
        /\ ((\E k \in 1..Len(AppendCalls) : AppendFailedAt(k)) =>
              /\ retval = "False"
              /\ Len(PageIdLines) = 1
              /\ PageIdLines[1].id = DictGet(responses[1].body, "id"))
        /\ (retval = "True" =>
              /\ ~CreateFailed(responses[1])
              /\ \A k \in 1..Len(AppendCalls) : ~AppendFailedAt(k))

\* C5: a non-success status on an append slice does not end the job: when
\* the job is over, every append slice that got a non-success status and
\* was not the last one has been followed by the append call for the next
\* slice, carrying that slice's items.
C5_AppendFailureContinues ==
    pc = "done" =>
        \A k \in 1..Len(AppendCalls) :
            (/\ AppendAnswered(k)
             /\ StatusFailure(AppendResponse(k))
             /\ k < ExpectedAppends(N)) =>
                /\ Len(AppendCalls) >= k + 1
                /\ SentItems(AppendCalls[k + 1]) =
                      PySlice(all_children, 100 + 100 * k, 200 + 100 * k)

C5_Witness ==
    /\ pc = "done"
    /\ N = 250
    /\ Len(AppendCalls) = 2
    /\ AppendAnswered(1)
    /\ AppendResponse(1).status_code = 400
    /\ Len(SentItems(AppendCalls[1])) = 100
    /\ Len(SentItems(AppendCalls[2])) = 50

\* C6: a transport error is treated like a non-success status: on the
\* create call the job ends as a failure with no append call; on an append
\* call it is recorded as a warning for that slice and all remaining tail
\* slices are still attempted.  Stated for the runs in which the remote API
\* answers as documented.
C6_TransportAsStatus ==
    /\ (CreateAnswered /\ responses[1].transport_error) =>
          (pc = "done" /\ retval = "False" /\ Len(AppendCalls) = 0)
    /\ (pc = "done" /\ RemoteAsDocumented) =>
          \A k \in 1..Len(AppendCalls) :
              (AppendAnswered(k) /\ AppendResponse(k).transport_error) =>
                  /\ Len(AppendCalls) = ExpectedAppends(N)
                  /\ Len(RangeLines) >= k
                  /\ RangeLines[k].text = "Warning: Failed to append blocks"

\* A create response with status 200 whose JSON body has no "id" field.
LacksId(r) ==
    /\ ~r.transport_error
    /\ r.status_code = 200
    /\ r.json_valid
    /\ DictGet(r.body, "id") = None

\* C7: a create response that reports success but has no identifier field
\* is a failure: no append call is issued with a missing identifier and the
\* job does not return True.
C7_MissingIdIsFailure ==
    /\ \A k \in 1..Len(AppendCalls) : AppendCalls[k].url[2] # None
    /\ (CreateAnswered /\ LacksId(responses[1])) => retval # "True"

\* C8 (as stated): with no blocks, exactly one create call is made, its
\* payload carries an explicit empty children list, and no append call is
\* made.
C8_ExplicitEmptyList ==
    (N = 0 /\ pc = "done") =>
        /\ Len(CreateCalls) = 1
        /\ "children" \in DOMAIN CreateCalls[1].payload
        /\ CreateCalls[1].payload.children = << >>
        /\ Len(AppendCalls) = 0

\* C8 (amended): with no blocks, exactly one create call is made, it
\* carries no items because its payload has no children key at all, and no
\* append call is made.
C8_NoChildrenKey ==
    (N = 0 /\ pc # "start") =>
        /\ Len(requests) = 1
        /\ IsPost(requests[1])
        /\ "children" \notin DOMAIN requests[1].payload
        /\ DOMAIN requests[1].payload = {"parent", "title"}
        /\ (pc = "done" /\ ~CreateRaises(responses[1]) /\ ~CreateFailed(responses[1])
              => retval = "True")

C8_Witness ==
    /\ N = 0
    /\ pc = "done"
    /\ retval = "True"
    /\ Len(requests) = 1

\* C9: the create call is issued exactly once in a run, so at most one
\* container identifier is produced, and every append call targets that
\* identifier.
C9_SingleContainer ==
    /\ Len(CreateCalls) <= 1
    /\ (pc # "start" => Len(CreateCalls) = 1 /\ IsPost(requests[1]))
    /\ \A k \in 1..Len(AppendCalls) :
          /\ AppendCalls[k].url[2] \in PageIds
          /\ AppendCalls[k].url[2] = DictGet(responses[1].body, "id")

\* C10: the range printed for append slice k (k = 0, 1, ...), in the
\* warning and in the success line alike, is 101+100k through
\* min(200+100k, N).  Stated for the runs in which the remote API answers as
\* documented.
C10_ReportedRange ==
    RemoteAsDocumented =>
        \A j \in 1..Len(RangeLines) :
            /\ RangeLines[j].lo = 101 + 100 * (j - 1)
            /\ RangeLines[j].hi = Min(200 + 100 * (j - 1), N)

\* Number of calls sent and not yet completed.
InFlight == Len(requests) - Len(responses)

\* C11: calls are strictly sequential and ordered: at most one call is in
\* flight at any time, the first call is the create call and all later ones
\* are append calls, an append call exists only once the create call has
\* completed with status 200 and data, append call k exists only once every
\* call before it has completed, and append call k carries the k-th tail
\* slice of the input (document order).
C11_Sequential ==
    /\ InFlight \in {0, 1}
    /\ \A j \in 1..Len(requests) :
          /\ (j = 1 <=> IsPost(requests[j]))
          /\ (j > 1 =>
                /\ IsPatch(requests[j])
                /\ Len(responses) >= j - 1
                /\ ~CreateRaises(responses[1])
                /\ responses[1].status_code = 200
                /\ responses[1].body # {}
                /\ \A m \in 2..(j - 1) : ~AppendRaises(responses[m])
                /\ SentItems(requests[j]) =
                      PySlice(all_children, 100 * (j - 1), 100 * j))

\* The call for the second tail slice (blocks 201-250) is in flight, after
\* the create call and the call for the first tail slice have completed.
C11_Witness ==
    /\ N = 250
    /\ pc = "append_wait"
    /\ Len(requests) = 3
    /\ Len(responses) = 2
    /\ InFlight = 1
    /\ Len(SentItems(requests[3])) = 50

====
